---------------------------- MODULE Spec2Model ----------------------------
(***************************************************************************)
(* Price-resolution and profitability engine of the eve_scripts profit     *)
(* checkers (t2_component_profitability_jita.py and its siblings, which    *)
(* share resolve_type_ids, get_best_order_in_jita, compute_component_profit*)
(* and main verbatim).                                                     *)
(*                                                                         *)
(* One run of main() is modelled: the identifier lookup, then for every    *)
(* recipe one compute_component_profit call, each market page request      *)
(* being one step whose response the market service chooses, then the      *)
(* sort of the results.  Money is exact: prices are integers and a cost is *)
(* an integer number of ten-thousandths (the multipliers are hundredths),  *)
(* a percentage is a fraction <<numerator, denominator>>.                  *)
(***************************************************************************)
EXTENDS Integers, Sequences, FiniteSets, TLC

\* ------------------------------------------------------------------ bounds
MaxOrdersPerPage == 1   \* orders in one page of a market response
MaxXPages == 2          \* largest X-Pages value a response declares
MaxRetries == 1         \* retryable statuses answered within one fetch
MaxStalledRetries == 4  \* retries followed while the service is stalled

\* --------------------------------------------------------------- constants
JITA_44_STATION_ID == 60003760
DEFAULT_MAX_PAGES == 10

\* MATERIAL_COST_MULTIPLIER and OVERHEAD_COST_MULTIPLIER, in hundredths:
\* 0.9 and 1.15 in t2_component_profitability_jita.py,
ComponentMultipliers == [material |-> 90, overhead |-> 115]

\* 0.9 and 1.1 in build_cost_test.py.
BuildCostMultipliers == [material |-> 90, overhead |-> 110]

\* The multiplier pairs a run is configured with.
Configs == { ComponentMultipliers, BuildCostMultipliers }

\* Hundredths * hundredths: the denominator of an effective cost.
CostDen == 100 * 100

\* ------------------------------------------------------------ recipe table
\* COMPONENT_RECIPES: a dict, iterated in insertion order; so is each
\* recipe's "materials" dict.  "A" is both a finished item and a material.
COMPONENT_RECIPES ==
    << [name |-> "Widget", materials |-> << <<"A", 2>>, <<"B", 1>> >>],
       [name |-> "A",      materials |-> << <<"B", 1>> >>],
       [name |-> "Blank",  materials |-> << >>] >>

NRecipes == Len(COMPONENT_RECIPES)

MaterialNames(recipe) ==
    { recipe.materials[i][1] : i \in 1..Len(recipe.materials) }

\* main: all_names = component names plus every material name.
AllNames ==
    { COMPONENT_RECIPES[i].name : i \in 1..NRecipes }
    \cup UNION { MaterialNames(COMPONENT_RECIPES[i]) : i \in 1..NRecipes }

\* The identifier the lookup service gives a name it recognizes.
ServiceIdOf ==
    [n \in AllNames |->
        CASE n = "Widget" -> 11555
          [] n = "A"      -> 16673
          [] n = "B"      -> 16678
          [] OTHER        -> 16683]

TypeIds == { ServiceIdOf[n] : n \in AllNames }

\* ------------------------------------------------------------------ orders
OtherStation == JITA_44_STATION_ID + 1
Prices == { 10, 20, 100 }

Order(location_id, price, volume_remain) ==
    [location_id |-> location_id, price |-> price,
     volume_remain |-> volume_remain]

\* The orders resting in the region during a run: one per price at the
\* target station, and one elsewhere at the middle price, which beats the
\* worst target-station order on either side.
RunBook ==
    { Order(JITA_44_STATION_ID, p, 1) : p \in Prices }
    \cup { Order(OtherStation, 20, 1) }

\* Optional[Dict]: None is the empty sequence, an order o is <<o>>.
None == << >>
Some(o) == << o >>
IsNone(x) == x = << >>
Get(x) == x[1]

SeqsUpTo(S, n) == UNION { [1..k -> S] : k \in 0..n }

\* resp.json() of a 200 response: a list of orders out of `orders`.
PageContents(orders) == SeqsUpTo(orders, MaxOrdersPerPage)

\* The X-Pages header: 0 stands for an absent header.
XPagesValues == 0..MaxXPages


\* --------------------------------------------------------- pure functions

\* A comparison that lets an order of equal price replace the best one.
ImprovesOrEqual(is_buy, price, best_price) ==
    IF is_buy THEN price >= best_price ELSE price <= best_price

\* get_best_order_in_jita, the comparison of lines 392-399: whether an
\* order at `price` replaces the current best at `best_price`.
Improves(is_buy, price, best_price) ==
    IF is_buy THEN price > best_price ELSE price < best_price

\* A scan that leaves the station test out.
RECURSIVE ScanOrdersNoFilter(_, _, _, _, _)
ScanOrdersNoFilter(orders, i, best_order, is_buy, jita_station_id) ==
    IF i > Len(orders) THEN best_order
    ELSE LET order == orders[i]
             next ==
                 IF IsNone(best_order) THEN Some(order)
                 ELSE IF Improves(is_buy, order.price, Get(best_order).price)
                      THEN Some(order)
                      ELSE best_order
         IN  ScanOrdersNoFilter(orders, i + 1, next, is_buy, jita_station_id)

\* get_best_order_in_jita, the for loop of lines 384-399 over one page,
\* from order i on, starting from the best order found so far.
RECURSIVE ScanOrders(_, _, _, _, _)
ScanOrders(orders, i, best_order, is_buy, jita_station_id) ==
    IF i > Len(orders) THEN best_order
    ELSE LET order == orders[i]
             next ==
                 IF order.location_id # jita_station_id THEN best_order
                 ELSE IF IsNone(best_order) THEN Some(order)
                 ELSE IF Improves(is_buy, order.price, Get(best_order).price)
                      THEN Some(order)
                      ELSE best_order
         IN  ScanOrders(orders, i + 1, next, is_buy, jita_station_id)

\* A selector that never consults its cache.
CacheHitNever(cache, type_id) == FALSE

\* get_best_order_in_jita, line 352: the cache test.
CacheHit(cache, type_id) == type_id \in DOMAIN cache

\* A store that replaces the whole cache by the one new entry.
StoreBestEvicting(cache, type_id, best_order) ==
    IF IsNone(best_order) THEN cache
    ELSE [t \in {type_id} |-> Get(best_order)]

\* A store that drops the test for None and stores an absent result too.
StoreBestEvenNone(cache, type_id, best_order) ==
    [t \in DOMAIN cache \cup {type_id} |->
        IF t # type_id THEN cache[t]
        ELSE IF IsNone(best_order) THEN None ELSE Get(best_order)]

\* get_best_order_in_jita, lines 410-411: only a found order is stored.
StoreBest(cache, type_id, best_order) ==
    IF IsNone(best_order) THEN cache
    ELSE [t \in DOMAIN cache \cup {type_id} |->
             IF t = type_id THEN Get(best_order) ELSE cache[t]]

\* A header test that goes on whenever the header is present.
MorePagesIgnoresTotal(page, x_pages) == x_pages # 0

\* get_best_order_in_jita, lines 401-406: whether the X-Pages header
\* (0: absent) lets the loop go on to the next page.
MorePages(page, x_pages) == x_pages # 0 /\ page < x_pages

\* A loop test that lets one page too many through.
LoopTestOneMore(page, max_pages) == page <= max_pages + 1

\* get_best_order_in_jita, line 359: the loop test.
LoopTest(page, max_pages) == page <= max_pages

\* compute_component_profit, line 465: one material's share of the raw cost.
MaterialCost(base_qty, sell_order) == base_qty * sell_order.price

\* An effective cost that leaves the overhead multiplier out.
EffectiveCostNoOverhead(total_raw_material_cost, cfg) ==
    total_raw_material_cost * cfg.material * 100

\* compute_component_profit, line 468, in ten-thousandths.
EffectiveCost(total_raw_material_cost, cfg) ==
    total_raw_material_cost * cfg.material * cfg.overhead

\* compute_component_profit, line 471, in ten-thousandths.
ProfitIsk(sell_price, effective_cost) == sell_price * CostDen - effective_cost

\* A percentage that is the bare ratio, not multiplied by 100.
ProfitPctNoHundred(profit_isk, effective_cost) ==
    IF effective_cost > 0
    THEN << profit_isk, effective_cost >>
    ELSE << 0, 1 >>

\* A percentage computed without the test for a zero cost.
ProfitPctUnguarded(profit_isk, effective_cost) ==
    << profit_isk * 100, effective_cost >>

\* compute_component_profit, lines 472-474: a fraction <<num, den>>, den > 0.
ProfitPct(profit_isk, effective_cost) ==
    IF effective_cost > 0
    THEN << profit_isk * 100, effective_cost >>
    ELSE << 0, 1 >>

\* compute_component_profit, lines 470-485: the returned dict.
Stats(component_name, buy_order, total_raw_material_cost, cfg) ==
    LET effective_cost == EffectiveCost(total_raw_material_cost, cfg)
        sell_price == buy_order.price
        profit_isk == ProfitIsk(sell_price, effective_cost)
    IN  [ name |-> component_name,
          profit_isk |-> profit_isk,
          profit_pct |-> ProfitPct(profit_isk, effective_cost),
          buy_volume |-> buy_order.volume_remain,
          sell_price |-> sell_price,
          cost |-> effective_cost ]

\* Order of two fractions with positive denominators, exact and without
\* a product of the two: whole parts first, then the remainders' inverses.
RECURSIVE FracLess(_, _)
FracLess(a, b) ==
    LET qa == a[1] \div a[2]
        qb == b[1] \div b[2]
        ra == a[1] % a[2]
        rb == b[1] % b[2]
    IN  IF qa # qb THEN qa < qb
        ELSE IF rb = 0 THEN FALSE
        ELSE IF ra = 0 THEN TRUE
        ELSE FracLess(<< b[2], rb >>, << a[2], ra >>)

FracEq(a, b) == ~FracLess(a, b) /\ ~FracLess(b, a)
FracGeq(a, b) == ~FracLess(a, b)

Reverse(s) == [i \in 1..Len(s) |-> s[Len(s) + 1 - i]]

\* A stable ascending insertion: r goes after every element not greater.
RECURSIVE InsertAsc(_, _)
InsertAsc(sorted, r) ==
    IF sorted = << >> THEN << r >>
    ELSE IF FracLess(r.profit_pct, Head(sorted).profit_pct)
         THEN << r >> \o sorted
         ELSE << Head(sorted) >> \o InsertAsc(Tail(sorted), r)

RECURSIVE SortAsc(_, _)
SortAsc(done, rest) ==
    IF rest = << >> THEN done
    ELSE SortAsc(InsertAsc(done, Head(rest)), Tail(rest))

\* A sort that forgets reverse=True.
SortResultsAscending(rs) == SortAsc(<< >>, rs)

\* A descending sort that only reverses an ascending one.
SortResultsUnstable(rs) == Reverse(SortAsc(<< >>, rs))

\* main, line 516: results.sort(key=profit_pct, reverse=True).  list.sort
\* reverses the list, sorts it ascending and stably, and reverses it again.
SortResults(rs) == Reverse(SortAsc(<< >>, Reverse(rs)))

\* ------------------------------------------------------------------- state

VARIABLES
    standalone,  \* build_cost_test.py, jita_sell_test.py: the script's state
    pc,          \* where the run is: see the actions
    book,        \* the orders the market service has to answer with
    config,      \* MATERIAL_COST_MULTIPLIER and OVERHEAD_COST_MULTIPLIER
    type_ids,    \* main: the name -> identifier mapping
    warned,      \* resolve_type_ids: the names printed in the warning
    lookup,      \* history: the lookup requests and the service's answer
    idx,         \* main: the recipe the for loop is at (1-based)
    buy_cache,   \* main: type_id -> best buy order
    sell_cache,  \* main: type_id -> best sell order
    results,     \* main: the list of stats
    c,           \* compute_component_profit: buy_order, material index, raw cost
    g,           \* get_best_order_in_jita: its arguments and locals
    ret,         \* the value the last get_best_order_in_jita call returned
    outcome,     \* per finished item: what compute_component_profit printed/returned
    net,         \* history: the market requests of the current (last) call
    ncalls,      \* history: get_best_order_in_jita calls per (is_buy, type_id)
    nfetch,      \* history: calls per key that went to the market
    nnone,       \* history: calls per key that returned None
    unsorted     \* history: results as they were before the sort

vars == << standalone, pc, book, lookup, config, type_ids, warned, idx, buy_cache, sell_cache, results,
           c, g, ret, outcome, net, ncalls, nfetch, nnone, unsorted >>

Keys == BOOLEAN \X TypeIds

EmptyMap == [x \in {} |-> 0]

NoFrame == [buy_order |-> None, mat |-> 1, total_raw_material_cost |-> 0]

NewCall(type_id, is_buy) ==
    [type_id |-> type_id, is_buy |-> is_buy, page |-> 1,
     best_order |-> None, max_pages |-> DEFAULT_MAX_PAGES]

\* No request yet: nreq requests, nretry of them answered with a retryable
\* status, page the page number of the last one; jita the extremal price
\* among the orders received so far at the target station, None when there
\* was none; elsewhere, whether an order at another station was received;
\* resp the kind of the last response.  A call observed in detail also
\* records x_pages, the X-Pages header of the last page of orders (0 for
\* none), pages, the number of pages whose orders were scanned, and seen,
\* the orders received at the target station, in arrival order; the calls
\* of a whole run are not observed in detail.  A call observed in detail
\* that is answered from the cache makes no request and leaves the record
\* of the fetch before it, with nreq and nretry at 0.
NoNet == [nreq |-> 0, nretry |-> 0, page |-> 0, jita |-> None,
          elsewhere |-> FALSE, resp |-> "none", detail |-> FALSE,
          x_pages |-> 0, pages |-> 0, seen |-> << >>]

\* No lookup yet: nreq requests to the lookup service, status the status
\* of its last response (0: none), recognized the names it answered with.
NoLookup == [nreq |-> 0, status |-> 0, recognized |-> {}]

\* ----------------------------------------------- the stand-alone scripts

\* build_cost_test.py line 52, experimental/jita_sell_test.py line 19.
JITA_SYSTEM_ID == 30000142

OtherSystem == JITA_SYSTEM_ID + 1

\* An order as the scripts read it (order_type=all): system_id,
\* is_buy_order, price.
MarketOrder(system_id, is_buy_order, price) ==
    [system_id |-> system_id, is_buy_order |-> is_buy_order, price |-> price]

\* The orders the market service answers the scripts with.
AllBook ==
    { MarketOrder(JITA_SYSTEM_ID, TRUE, 10),
      MarketOrder(JITA_SYSTEM_ID, FALSE, 10),
      MarketOrder(OtherSystem, TRUE, 20) }

Scripts == { "build_cost_test", "jita_sell_test" }

\* build_cost_test.py, lines 35-48: the materials, in the order of the dict.
MATERIALS == << "Fernite Carbide", "Sylramic Fibers", "Ferrogel" >>

\* The `buy` argument of the fetches a script makes, in order:
\* build_cost_test.py lines 118-126, the final item then each material;
\* jita_sell_test.py line 67, the item alone.
BuyArgs(script) ==
    IF script = "build_cost_test"
    THEN << TRUE >> \o [i \in 1..Len(MATERIALS) |-> FALSE]
    ELSE << TRUE >>

\* The concatenation of a sequence of pages.
RECURSIVE Flatten(_)
Flatten(pages) ==
    IF pages = << >> THEN << >>
    ELSE Head(pages) \o Flatten(Tail(pages))

\* get_best_order_in_system, build_cost_test.py lines 98-110, and
\* get_highest_jita_buy_order, jita_sell_test.py lines 69-81: the orders of
\* the system on the given side; None when there is none, else the first
\* one of extremal price (max and min return the first extremal element).
get_best_order_in_system(orders, system_id, buy) ==
    LET sys_orders == SelectSeq(orders,
                         LAMBDA o : o.system_id = system_id
                                       /\ o.is_buy_order = buy)
        n == Len(sys_orders)
    IN  IF n = 0 THEN None
        ELSE Some(sys_orders[
                 CHOOSE i \in 1..n :
                    /\ \A j \in 1..n :
                          IF buy THEN sys_orders[j].price <= sys_orders[i].price
                          ELSE sys_orders[i].price <= sys_orders[j].price
                    /\ \A j \in 1..(i - 1) :
                          sys_orders[j].price # sys_orders[i].price ])

\* No script is running.
NoScript ==
    [script |-> "none", pc |-> "idle", call |-> 0, page |-> 0,
     all_orders |-> << >>, requested |-> << >>, received |-> << >>,
     x_pages |-> 0, status |-> 0, best_orders |-> << >>,
     exit_code |-> -1, output |-> "none"]

\* fetch_orders_for_type, lines 64-71 of build_cost_test.py: the call-th
\* fetch of the script is about to request page 1.  requested is the page
\* numbers asked of the service, received the pages of orders it answered
\* with, x_pages the X-Pages header of the last one (0: absent), status the
\* last status, best_orders what the fetches before returned, exit_code -1
\* while the script runs.
StartFetch(script, call, best_orders) ==
    [script |-> script, pc |-> "fetch", call |-> call, page |-> 1,
     all_orders |-> << >>, requested |-> << >>, received |-> << >>,
     x_pages |-> 0, status |-> 0, best_orders |-> best_orders,
     exit_code |-> -1, output |-> "none"]

\* ------------------------------------------------------------- main's run

Init ==
    /\ standalone = NoScript
    /\ pc = "resolve"
    /\ book = RunBook
    /\ lookup = NoLookup
    /\ config \in Configs
    /\ type_ids = EmptyMap
    /\ warned = {}
    /\ idx = 1
    /\ buy_cache = EmptyMap
    /\ sell_cache = EmptyMap
    /\ results = << >>
    /\ c = NoFrame
    /\ g = NewCall(0, FALSE)
    /\ ret = None
    /\ outcome = [n \in {} |-> ""]
    /\ net = NoNet
    /\ ncalls = [k \in Keys |-> 0]
    /\ nfetch = [k \in Keys |-> 0]
    /\ nnone = [k \in Keys |-> 0]
    /\ unsorted = << >>

\* ------------------------------------------------------- resolve_type_ids

\* A lookup that warns about every requested name.
ResolveOKWarnsAll ==
    /\ pc = "resolve"
    /\ \E recognized \in SUBSET AllNames :
          /\ lookup' = [nreq |-> lookup.nreq + 1, status |-> 200,
                        recognized |-> recognized]
          /\ type_ids' = [n \in recognized |-> ServiceIdOf[n]]
          /\ warned' = AllNames
    /\ pc' = "loop"
    /\ UNCHANGED << standalone, book, config, idx, buy_cache, sell_cache, results, c, g, ret,
                    outcome, net, ncalls, nfetch, nnone, unsorted >>

\* resolve_type_ids, lines 317-337, for a 200 response naming `recognized`.
ResolveOK ==
    /\ pc = "resolve"
    /\ \E recognized \in SUBSET AllNames :
          /\ lookup' = [nreq |-> lookup.nreq + 1, status |-> 200,
                        recognized |-> recognized]
          /\ type_ids' = [n \in recognized |-> ServiceIdOf[n]]
          /\ warned' = AllNames \ recognized
    /\ pc' = "loop"
    /\ UNCHANGED << standalone, book, config, idx, buy_cache, sell_cache, results, c, g, ret,
                    outcome, net, ncalls, nfetch, nnone, unsorted >>

\* The statuses get_best_order_in_jita retries, line 370.
RetryStatuses == { 420, 429, 500, 503, 504 }

\* The error statuses a service answers with: the retried ones and, for
\* all the others, 404.
ErrorStatuses == RetryStatuses \cup { 404 }

\* A lookup that is asked again after a rate-limit or server-error status.
ResolveErrorRetries ==
    /\ pc = "resolve"
    /\ \E status \in ErrorStatuses :
          /\ lookup' = [nreq |-> lookup.nreq + 1, status |-> status,
                        recognized |-> {}]
          /\ pc' = IF status \in RetryStatuses /\ lookup.nreq = 0
                   THEN "resolve" ELSE "aborted"
    /\ UNCHANGED << standalone, book, config, type_ids, warned, idx, buy_cache, sell_cache,
                    results, c, g, ret, outcome, net, ncalls, nfetch, nnone,
                    unsorted >>

\* resolve_type_ids, lines 317-324: an error status; raise_for_status
\* raises, main does not catch.
ResolveError ==
    /\ pc = "resolve"
    /\ \E status \in ErrorStatuses :
          lookup' = [nreq |-> lookup.nreq + 1, status |-> status,
                     recognized |-> {}]
    /\ pc' = "aborted"
    /\ UNCHANGED << standalone, book, config, type_ids, warned, idx, buy_cache, sell_cache,
                    results, c, g, ret, outcome, net, ncalls, nfetch, nnone,
                    unsorted >>

\* -------------------------------------------------- get_best_order_in_jita

ReturnSite(is_buy) == IF is_buy THEN "buy_ret" ELSE "mat_ret"

\* One cache consulted for both sides.
CacheOfOneForBoth(is_buy) == sell_cache

CacheOf(is_buy) == IF is_buy THEN buy_cache ELSE sell_cache

\* get_best_order_in_jita, lines 352-358: the call, up to the first request.
CallGetBest(type_id, is_buy) ==
    /\ g' = NewCall(type_id, is_buy)
    /\ net' = IF net.detail /\ CacheHit(CacheOf(is_buy), type_id)
              THEN [net EXCEPT !.nreq = 0, !.nretry = 0]
              ELSE [NoNet EXCEPT !.detail = net.detail]
    /\ ncalls' = [ncalls EXCEPT ![<< is_buy, type_id >>] = @ + 1]
    /\ IF CacheHit(CacheOf(is_buy), type_id)
       THEN /\ ret' = Some(CacheOf(is_buy)[type_id])
            /\ pc' = ReturnSite(is_buy)
            /\ nfetch' = nfetch
       ELSE /\ ret' = None
            /\ pc' = "fetch"
            /\ nfetch' = [nfetch EXCEPT ![<< is_buy, type_id >>] = @ + 1]
    /\ UNCHANGED << buy_cache, sell_cache, nnone >>

\* get_best_order_in_jita, lines 410-413: the loop is left with best_order.
ReturnBest(best_order) ==
    /\ buy_cache' = IF g.is_buy THEN StoreBest(buy_cache, g.type_id, best_order)
                    ELSE buy_cache
    /\ sell_cache' = IF g.is_buy THEN sell_cache
                     ELSE StoreBest(sell_cache, g.type_id, best_order)
    /\ ret' = best_order
    /\ nnone' = IF IsNone(best_order)
                THEN [nnone EXCEPT ![<< g.is_buy, g.type_id >>] = @ + 1]
                ELSE nnone
    /\ pc' = ReturnSite(g.is_buy)

Requested == [net EXCEPT !.nreq = @ + 1, !.page = g.page]

SetMax(S) == CHOOSE x \in S : \A y \in S : y <= x
SetMin(S) == CHOOSE x \in S : \A y \in S : x <= y

\* The highest (buy side) or lowest (sell side) price of a set, as a set
\* operation; None for the empty set.
Extremal(is_buy, prices) ==
    IF prices = {} THEN None
    ELSE Some(IF is_buy THEN SetMax(prices) ELSE SetMin(prices))

PricesAt(orders, station) ==
    { orders[i].price : i \in { j \in 1..Len(orders) :
                                   orders[j].location_id = station } }

AtStation(o) == o.location_id = JITA_44_STATION_ID

\* The history after a page of orders, with its X-Pages header, was received.
Received(orders, x_pages) ==
    [Requested EXCEPT
        !.jita = Extremal(g.is_buy,
                    PricesAt(orders, JITA_44_STATION_ID)
                    \cup { @[i] : i \in 1..Len(@) }),
        !.elsewhere = @ \/ \E i \in 1..Len(orders) :
                               orders[i].location_id # JITA_44_STATION_ID,
        !.resp = IF orders = << >> THEN "empty" ELSE "orders",
        !.x_pages = IF net.detail THEN x_pages ELSE @,
        !.pages = IF net.detail /\ orders # << >> THEN @ + 1 ELSE @,
        !.seen = IF net.detail THEN @ \o SelectSeq(orders, AtStation) ELSE @]

\* A retry that moves on to the next page.
RespRetryNextPage ==
    /\ pc = "fetch"
    /\ net.nretry < MaxRetries
    /\ net' = [Requested EXCEPT !.nretry = @ + 1, !.resp = "retry"]
    /\ g' = [g EXCEPT !.page = @ + 1]
    /\ UNCHANGED << standalone, pc, book, lookup, config, type_ids, warned, idx, buy_cache, sell_cache,
                    results, c, ret, outcome, ncalls, nfetch, nnone,
                    unsorted >>

\* Lines 367-373: a rate-limit or server-error status; sleep, same page again.
RespRetry ==
    /\ pc = "fetch"
    /\ net.nretry < MaxRetries
    /\ net' = [Requested EXCEPT !.nretry = @ + 1, !.resp = "retry"]
    /\ UNCHANGED << standalone, pc, book, lookup, config, type_ids, warned, idx, buy_cache, sell_cache,
                    results, c, g, ret, outcome, ncalls, nfetch, nnone,
                    unsorted >>

\* A 204 handler that forgets the pages read so far: the call returns None.
Resp204DropsBest ==
    /\ pc = "fetch"
    /\ net' = [Requested EXCEPT !.resp = "204"]
    /\ ReturnBest(None)
    /\ UNCHANGED << standalone, book, lookup, config, type_ids, warned, idx, results, c, g, outcome,
                    ncalls, nfetch, unsorted >>

\* Lines 375-376: 204 ends the loop.
Resp204 ==
    /\ pc = "fetch"
    /\ net' = [Requested EXCEPT !.resp = "204"]
    /\ ReturnBest(g.best_order)
    /\ UNCHANGED << standalone, book, lookup, config, type_ids, warned, idx, results, c, g, outcome,
                    ncalls, nfetch, unsorted >>

\* An error status taken for "no order found": the call returns None.
RespErrorReturnsNone ==
    /\ pc = "fetch"
    /\ net' = [Requested EXCEPT !.resp = "error"]
    /\ ReturnBest(None)
    /\ UNCHANGED << standalone, book, lookup, config, type_ids, warned, idx, results, c, g, outcome,
                    ncalls, nfetch, unsorted >>

\* Line 378: any other error status; raise_for_status raises through main.
RespError ==
    /\ pc = "fetch"
    /\ net' = [Requested EXCEPT !.resp = "error"]
    /\ pc' = "aborted"
    /\ UNCHANGED << standalone, book, lookup, config, type_ids, warned, idx, buy_cache, sell_cache,
                    results, c, g, ret, outcome, ncalls, nfetch, nnone,
                    unsorted >>

\* A fetch that returns what it found when max_pages cuts it short, and
\* caches it only when the pages ran out.
RespOrdersTruncatedNotStored ==
    /\ pc = "fetch"
    /\ \E orders \in PageContents(book), x_pages \in XPagesValues :
          LET best == ScanOrders(orders, 1, g.best_order, g.is_buy,
                                 JITA_44_STATION_ID)
          IN  /\ net' = Received(orders, x_pages)
              /\ IF orders = << >>
                 THEN /\ g' = g
                      /\ ReturnBest(g.best_order)
                 ELSE IF ~MorePages(g.page, x_pages)
                 THEN /\ g' = [g EXCEPT !.best_order = best]
                      /\ ReturnBest(best)
                 ELSE /\ g' = [g EXCEPT !.best_order = best, !.page = @ + 1]
                      /\ IF LoopTest(g.page + 1, g.max_pages)
                         THEN UNCHANGED << pc, buy_cache, sell_cache, ret,
                                           nnone >>
                         ELSE /\ ret' = best
                              /\ pc' = ReturnSite(g.is_buy)
                              /\ UNCHANGED << buy_cache, sell_cache, nnone >>
    /\ UNCHANGED << standalone, book, lookup, config, type_ids, warned, idx, results, c, outcome,
                    ncalls, nfetch, unsorted >>

\* A 200 response handler that takes an empty page for an error.
RespOrdersEmptyIsError ==
    /\ pc = "fetch"
    /\ \E orders \in PageContents(book), x_pages \in XPagesValues :
          LET best == ScanOrders(orders, 1, g.best_order, g.is_buy,
                                 JITA_44_STATION_ID)
          IN  /\ net' = Received(orders, x_pages)
              /\ IF orders = << >>
                 THEN /\ g' = g
                      /\ pc' = "aborted"
                      /\ UNCHANGED << buy_cache, sell_cache, ret, nnone >>
                 ELSE IF ~MorePages(g.page, x_pages)
                 THEN /\ g' = [g EXCEPT !.best_order = best]
                      /\ ReturnBest(best)
                 ELSE /\ g' = [g EXCEPT !.best_order = best, !.page = @ + 1]
                      /\ IF LoopTest(g.page + 1, g.max_pages)
                         THEN UNCHANGED << pc, buy_cache, sell_cache, ret,
                                           nnone >>
                         ELSE ReturnBest(best)
    /\ UNCHANGED << standalone, book, lookup, config, type_ids, warned, idx, results, c, outcome,
                    ncalls, nfetch, unsorted >>

\* Lines 379-408: a 200 response with its orders and its X-Pages header.
RespOrders ==
    /\ pc = "fetch"
    /\ \E orders \in PageContents(book), x_pages \in XPagesValues :
          LET best == ScanOrders(orders, 1, g.best_order, g.is_buy,
                                 JITA_44_STATION_ID)
          IN  /\ net' = Received(orders, x_pages)
              /\ IF orders = << >>
                 THEN /\ g' = g
                      /\ ReturnBest(g.best_order)
                 ELSE IF ~MorePages(g.page, x_pages)
                 THEN /\ g' = [g EXCEPT !.best_order = best]
                      /\ ReturnBest(best)
                 ELSE /\ g' = [g EXCEPT !.best_order = best, !.page = @ + 1]
                      /\ IF LoopTest(g.page + 1, g.max_pages)
                         THEN UNCHANGED << pc, buy_cache, sell_cache, ret,
                                           nnone >>
                         ELSE ReturnBest(best)
    /\ UNCHANGED << standalone, book, lookup, config, type_ids, warned, idx, results, c, outcome,
                    ncalls, nfetch, unsorted >>

\* ------------------------------------------------ compute_component_profit

Recipe == COMPONENT_RECIPES[idx]

\* A skip that still appends an entry for the item, with a zero cost.
SkipItemPlaceholder(why) ==
    /\ outcome' = [n \in DOMAIN outcome \cup {Recipe.name} |->
                      IF n = Recipe.name THEN why ELSE outcome[n]]
    /\ idx' = idx + 1
    /\ c' = NoFrame
    /\ pc' = "loop"
    /\ results' = Append(results,
            [ name |-> Recipe.name, profit_isk |-> 0, profit_pct |-> << 0, 1 >>,
              buy_volume |-> 0, sell_price |-> 0, cost |-> 0 ])

\* A skip that ends the loop of main.
SkipItemEndsLoop(why) ==
    /\ outcome' = [n \in DOMAIN outcome \cup {Recipe.name} |->
                      IF n = Recipe.name THEN why ELSE outcome[n]]
    /\ idx' = NRecipes + 1
    /\ c' = NoFrame
    /\ pc' = "loop"
    /\ UNCHANGED results

\* A skip after which the loop of main takes the same recipe again.
SkipItemStays(why) ==
    /\ outcome' = [n \in DOMAIN outcome \cup {Recipe.name} |->
                      IF n = Recipe.name THEN why ELSE outcome[n]]
    /\ idx' = idx
    /\ c' = NoFrame
    /\ pc' = "loop"
    /\ UNCHANGED results

\* main, lines 508-509 with a None: nothing is appended, the loop goes on.
\* `why` is the message compute_component_profit printed.
SkipItem(why) ==
    /\ outcome' = [n \in DOMAIN outcome \cup {Recipe.name} |->
                      IF n = Recipe.name THEN why ELSE outcome[n]]
    /\ idx' = idx + 1
    /\ c' = NoFrame
    /\ pc' = "loop"
    /\ UNCHANGED results

\* An item step that asks the lookup service again for a missing name.
EnterItemLooksUpAgain ==
    /\ pc = "loop"
    /\ idx <= NRecipes
    /\ IF Recipe.name \notin DOMAIN type_ids
       THEN /\ type_ids' = [n \in DOMAIN type_ids \cup {Recipe.name} |->
                               ServiceIdOf[n]]
            /\ lookup' = [lookup EXCEPT !.nreq = @ + 1]
            /\ UNCHANGED << pc, idx, c, results, outcome, buy_cache,
                            sell_cache, g, ret, net, ncalls, nfetch, nnone >>
       ELSE /\ CallGetBest(type_ids[Recipe.name], TRUE)
            /\ UNCHANGED << idx, c, results, outcome, type_ids, lookup >>
    /\ UNCHANGED << standalone, book, config, warned, unsorted >>

\* main, line 504, and compute_component_profit, lines 435-443: the next
\* recipe; its own identifier, then the call for its best buy order.
EnterItem ==
    /\ pc = "loop"
    /\ idx <= NRecipes
    /\ IF Recipe.name \notin DOMAIN type_ids
       THEN /\ SkipItem("no_type_id")
            /\ UNCHANGED << buy_cache, sell_cache, g, ret, net, ncalls,
                            nfetch, nnone >>
       ELSE /\ CallGetBest(type_ids[Recipe.name], TRUE)
            /\ UNCHANGED << idx, c, results, outcome >>
    /\ UNCHANGED << standalone, book, lookup, config, type_ids, warned, unsorted >>

\* A caller that goes on to the materials whatever the buy order is.
AfterBuyGoesOn ==
    /\ pc = "buy_ret"
    /\ c' = [buy_order |-> ret, mat |-> 1, total_raw_material_cost |-> 0]
    /\ pc' = "mat"
    /\ g' = NewCall(0, FALSE)
    /\ ret' = None
    /\ net' = NoNet
    /\ UNCHANGED << standalone, book, lookup, config, type_ids, warned, idx, results,
                    outcome, buy_cache, sell_cache, ncalls, nfetch, nnone,
                    unsorted >>

\* compute_component_profit, lines 444-449: the buy order came back.
AfterBuy ==
    /\ pc = "buy_ret"
    /\ IF IsNone(ret)
       THEN SkipItem("no_buy")
       ELSE /\ c' = [buy_order |-> ret, mat |-> 1,
                     total_raw_material_cost |-> 0]
            /\ pc' = "mat"
            /\ UNCHANGED << idx, results, outcome >>
    /\ g' = NewCall(0, FALSE)
    /\ ret' = None
    /\ net' = NoNet
    /\ UNCHANGED << standalone, book, lookup, config, type_ids, warned, buy_cache, sell_cache, ncalls,
                    nfetch, nnone, unsorted >>

\* A caller that gives up an item whose recipe names no material.
NextMaterialSkipsEmpty ==
    /\ pc = "mat"
    /\ IF Recipe.materials = << >>
       THEN /\ SkipItem("no_materials")
            /\ UNCHANGED << buy_cache, sell_cache, g, ret, net, ncalls,
                            nfetch, nnone >>
       ELSE IF c.mat > Len(Recipe.materials)
       THEN /\ results' = Append(results,
                   Stats(Recipe.name, Get(c.buy_order),
                         c.total_raw_material_cost, config))
            /\ outcome' = [n \in DOMAIN outcome \cup {Recipe.name} |->
                              IF n = Recipe.name THEN "ok" ELSE outcome[n]]
            /\ idx' = idx + 1
            /\ c' = NoFrame
            /\ pc' = "loop"
            /\ UNCHANGED << buy_cache, sell_cache, g, ret, net, ncalls,
                            nfetch, nnone >>
       ELSE LET mat_name == Recipe.materials[c.mat][1]
            IN  IF mat_name \notin DOMAIN type_ids
                THEN /\ SkipItem("missing_material")
                     /\ UNCHANGED << buy_cache, sell_cache, g, ret, net,
                                     ncalls, nfetch, nnone >>
                ELSE /\ CallGetBest(type_ids[mat_name], FALSE)
                     /\ UNCHANGED << idx, c, results, outcome >>
    /\ UNCHANGED << standalone, book, lookup, config, type_ids, warned, unsorted >>

\* compute_component_profit, lines 451-459 and 467-485, and main, lines
\* 508-509: the next material is looked up and its sell order asked for;
\* after the last one the stats are built and appended.
NextMaterial ==
    /\ pc = "mat"
    /\ IF c.mat > Len(Recipe.materials)
       THEN /\ results' = Append(results,
                   Stats(Recipe.name, Get(c.buy_order),
                         c.total_raw_material_cost, config))
            /\ outcome' = [n \in DOMAIN outcome \cup {Recipe.name} |->
                              IF n = Recipe.name THEN "ok" ELSE outcome[n]]
            /\ idx' = idx + 1
            /\ c' = NoFrame
            /\ pc' = "loop"
            /\ UNCHANGED << buy_cache, sell_cache, g, ret, net, ncalls,
                            nfetch, nnone >>
       ELSE LET mat_name == Recipe.materials[c.mat][1]
            IN  IF mat_name \notin DOMAIN type_ids
                THEN /\ SkipItem("missing_material")
                     /\ UNCHANGED << buy_cache, sell_cache, g, ret, net,
                                     ncalls, nfetch, nnone >>
                ELSE /\ CallGetBest(type_ids[mat_name], FALSE)
                     /\ UNCHANGED << idx, c, results, outcome >>
    /\ UNCHANGED << standalone, book, lookup, config, type_ids, warned, unsorted >>

\* A caller that counts a material without a sell order as free and goes on
\* to the next material.
AfterMaterialGoesOn ==
    /\ pc = "mat_ret"
    /\ c' = [c EXCEPT
                !.total_raw_material_cost =
                    IF IsNone(ret) THEN @
                    ELSE @ + MaterialCost(Recipe.materials[c.mat][2], Get(ret)),
                !.mat = @ + 1]
    /\ pc' = "mat"
    /\ g' = NewCall(0, FALSE)
    /\ ret' = None
    /\ net' = NoNet
    /\ UNCHANGED << standalone, book, lookup, config, type_ids, warned, idx, results,
                    outcome, buy_cache, sell_cache, ncalls, nfetch, nnone,
                    unsorted >>

\* compute_component_profit, lines 460-465: the sell order came back.
AfterMaterial ==
    /\ pc = "mat_ret"
    /\ IF IsNone(ret)
       THEN SkipItem("no_sell")
       ELSE /\ c' = [c EXCEPT
                       !.total_raw_material_cost =
                           @ + MaterialCost(Recipe.materials[c.mat][2], Get(ret)),
                       !.mat = @ + 1]
            /\ pc' = "mat"
            /\ UNCHANGED << idx, results, outcome >>
    /\ g' = NewCall(0, FALSE)
    /\ ret' = None
    /\ net' = NoNet
    /\ UNCHANGED << standalone, book, lookup, config, type_ids, warned, buy_cache, sell_cache, ncalls,
                    nfetch, nnone, unsorted >>

\* --------------------------------------------------------------------- main

\* An end of run that sorts and reports whatever the results are.
FinishAlwaysReports ==
    /\ pc = "loop"
    /\ idx > NRecipes
    /\ unsorted' = results
    /\ results' = SortResults(results)
    /\ pc' = "report"
    /\ UNCHANGED << standalone, book, lookup, config, type_ids, warned, idx, buy_cache,
                    sell_cache, c, g, ret, outcome, net, ncalls, nfetch,
                    nnone >>

\* main, lines 511-516: after the loop; no results, or the sort.
Finish ==
    /\ pc = "loop"
    /\ idx > NRecipes
    /\ IF results = << >>
       THEN /\ pc' = "no_results"
            /\ UNCHANGED << results, unsorted >>
       ELSE /\ unsorted' = results
            /\ results' = SortResults(results)
            /\ pc' = "report"
    /\ UNCHANGED << standalone, book, lookup, config, type_ids, warned, idx, buy_cache, sell_cache, c,
                    g, ret, outcome, net, ncalls, nfetch, nnone >>

Next ==
    \/ ResolveOK
    \/ ResolveError
    \/ EnterItem
    \/ AfterBuy
    \/ NextMaterial
    \/ AfterMaterial
    \/ RespRetry
    \/ Resp204
    \/ RespError
    \/ RespOrders
    \/ Finish

Spec == Init /\ [][Next]_vars

\* ------------------------------------------------------ one selector call

\* The values a caller passes for max_pages.
MaxPagesArgs == { 1, 2 }

\* An order book in which every price at the target station is quoted by
\* two orders, told apart by their volume_remain.
TieBook ==
    { Order(JITA_44_STATION_ID, p, v) : p \in { 10, 20 }, v \in { 1, 2 } }
    \cup { Order(OtherStation, 20, 1) }

\* One call get_best_order_in_jita(type_id, is_buy, max_pages=m,
\* cache=buy_cache or sell_cache) on an empty cache, observed in detail:
\* the call has missed the cache (line 352) and is about to request page 1.
InitCallOn(orders) ==
    /\ standalone = NoScript
    /\ pc = "fetch"
    /\ book = orders
    /\ lookup = [nreq |-> 1, status |-> 200, recognized |-> AllNames]
    /\ config = ComponentMultipliers
    /\ type_ids = [n \in AllNames |-> ServiceIdOf[n]]
    /\ warned = {}
    /\ idx = 1
    /\ buy_cache = EmptyMap
    /\ sell_cache = EmptyMap
    /\ results = << >>
    /\ c = NoFrame
    /\ \E is_buy \in BOOLEAN, m \in MaxPagesArgs :
          g = [NewCall(ServiceIdOf["Widget"], is_buy) EXCEPT !.max_pages = m]
    /\ ret = None
    /\ outcome = [n \in {} |-> ""]
    /\ net = [NoNet EXCEPT !.detail = TRUE]
    /\ ncalls = [k \in Keys |-> IF k = << g.is_buy, g.type_id >> THEN 1 ELSE 0]
    /\ nfetch = ncalls
    /\ nnone = [k \in Keys |-> 0]
    /\ unsorted = << >>

InitCall == InitCallOn(TieBook)

\* The responses of the market service to the call's page requests.
NextCall ==
    \/ RespRetry
    \/ Resp204
    \/ RespError
    \/ RespOrders

SpecCall == InitCall /\ [][NextCall]_vars

\* --------------------------------------------- a call on a stalled service

\* The market service stops recovering: from now on it answers the page
\* the call is requesting with retryable statuses only.  The call is still
\* in its while loop; pc = "stalled" tells the service's state apart.
Stall ==
    /\ pc = "fetch"
    /\ pc' = "stalled"
    /\ UNCHANGED << standalone, book, lookup, config, type_ids, warned, idx, buy_cache,
                    sell_cache, results, c, g, ret, outcome, net, ncalls,
                    nfetch, nnone, unsorted >>

\* A retry that gives the call up once as many requests were retried as
\* max_pages allows pages.
RespRetryStalledGivesUp ==
    /\ pc = "stalled"
    /\ net.nretry < MaxStalledRetries
    /\ net' = [Requested EXCEPT !.nretry = @ + 1, !.resp = "retry"]
    /\ IF net.nretry < g.max_pages
       THEN UNCHANGED << pc, buy_cache, sell_cache, ret, nnone >>
       ELSE ReturnBest(g.best_order)
    /\ UNCHANGED << standalone, book, lookup, config, type_ids, warned, idx, results, c, g,
                    outcome, ncalls, nfetch, unsorted >>

\* Lines 367-373 on the stalled service: the status is retryable, the loop
\* sleeps and continues with the same page; nothing counts the retries.
RespRetryStalled ==
    /\ pc = "stalled"
    /\ net.nretry < MaxStalledRetries
    /\ net' = [Requested EXCEPT !.nretry = @ + 1, !.resp = "retry"]
    /\ UNCHANGED << standalone, pc, book, lookup, config, type_ids, warned, idx, buy_cache,
                    sell_cache, results, c, g, ret, outcome, ncalls, nfetch,
                    nnone, unsorted >>

NextStall ==
    \/ RespRetry
    \/ Resp204
    \/ RespError
    \/ RespOrders
    \/ Stall
    \/ RespRetryStalled

SpecStall == InitCall /\ [][NextStall]_vars

\* ------------------------------------------- a run under a fair scheduler

\* An order book of two orders at the target station.
ThinBook == { Order(JITA_44_STATION_ID, p, 1) : p \in { 10, 100 } }

\* A run that has resolved every name and is in its first selector call,
\* the one for the first recipe's buy order, made with max_pages passed.
InitRunAtCall == InitCallOn(ThinBook) /\ g.is_buy

\* The steps of a run after the lookup.
NextRun ==
    \/ EnterItem
    \/ AfterBuy
    \/ NextMaterial
    \/ AfterMaterial
    \/ RespRetry
    \/ Resp204
    \/ RespError
    \/ RespOrders
    \/ Finish

\* The program runs on while it has a step to take; the market service
\* answers every request, and a call's requests with a retryable status at
\* most MaxRetries times.
FairRun == InitRunAtCall /\ [][NextRun]_vars /\ WF_vars(NextRun)

\* ---------------------------------------------- two lookups of one key

\* compute_component_profit, lines 441-443 and 457-459: the caller asks
\* again for the key of the call that has just returned, with the default
\* max_pages, as it does when a later recipe needs the same identifier on
\* the same side.
CallAgain ==
    /\ pc = ReturnSite(g.is_buy)
    /\ ncalls[<< g.is_buy, g.type_id >>] = 1
    /\ CallGetBest(g.type_id, g.is_buy)
    /\ UNCHANGED << standalone, book, lookup, config, type_ids, warned, idx, results, c,
                    outcome, unsorted >>

NextTwoCalls ==
    \/ RespRetry
    \/ Resp204
    \/ RespError
    \/ RespOrders
    \/ CallAgain

SpecTwoCalls == InitCall /\ [][NextTwoCalls]_vars

\* ------------------------------------- the stand-alone scripts: actions

runVars == << pc, book, lookup, config, type_ids, warned, idx, buy_cache,
              sell_cache, results, c, g, ret, outcome, net, ncalls, nfetch,
              nnone, unsorted >>

\* A fetcher that asks once more after a rate-limit or server-error status.
FetchPageErrorRetries ==
    /\ standalone.pc = "fetch"
    /\ \E status \in ErrorStatuses :
          standalone' =
             IF status \in RetryStatuses /\ standalone.status \notin RetryStatuses
             THEN [standalone EXCEPT
                      !.requested = Append(@, standalone.page),
                      !.status = status]
             ELSE [standalone EXCEPT
                      !.requested = Append(@, standalone.page),
                      !.status = status,
                      !.pc = "exit",
                      !.exit_code = 1,
                      !.output = "error"]
    /\ UNCHANGED runVars

\* fetch_orders_for_type, lines 73-75, and main, lines 128-130, of
\* build_cost_test.py (jita_sell_test.py: 48-50 and 86-88): an error status;
\* raise_for_status raises, main prints the error and exits with code 1.
FetchPageError ==
    /\ standalone.pc = "fetch"
    /\ \E status \in ErrorStatuses :
          standalone' = [standalone EXCEPT
                            !.requested = Append(@, standalone.page),
                            !.status = status,
                            !.pc = "exit",
                            !.exit_code = 1,
                            !.output = "error"]
    /\ UNCHANGED runVars

\* fetch_orders_for_type, lines 73-88 of build_cost_test.py
\* (jita_sell_test.py: 48-62): a 200 response with a page of orders and its
\* X-Pages header; the page is appended, and the loop goes on with the next
\* page unless the header is absent or the page number has reached it.
FetchPage ==
    /\ standalone.pc = "fetch"
    /\ \E page_orders \in PageContents(AllBook), x_pages \in XPagesValues :
          standalone' = [standalone EXCEPT
                            !.requested = Append(@, standalone.page),
                            !.received = Append(@, page_orders),
                            !.all_orders = @ \o page_orders,
                            !.x_pages = x_pages,
                            !.status = 200,
                            !.page = IF MorePages(standalone.page, x_pages)
                                     THEN @ + 1 ELSE @,
                            !.pc = IF MorePages(standalone.page, x_pages)
                                   THEN "fetch" ELSE "select"]
    /\ UNCHANGED runVars

\* What main prints once every fetch has returned: build_cost_test.py lines
\* 133-149 (jita_sell_test.py: 90-92).
Output(best_orders) ==
    IF IsNone(best_orders[1]) THEN "no_buy"
    ELSE IF \E i \in 2..Len(best_orders) : IsNone(best_orders[i]) THEN "no_sell"
    ELSE "report"

\* get_best_order_in_system, lines 98-110, and main, lines 118-169, of
\* build_cost_test.py (jita_sell_test.py: 66-99): the fetch has returned
\* all_orders; the best order is selected, then main makes its next fetch
\* or, after the last one, exits with code 0, with the message of the first
\* missing order or with the report.
Select ==
    /\ standalone.pc = "select"
    /\ LET buy == BuyArgs(standalone.script)[standalone.call]
           best_orders ==
               Append(standalone.best_orders,
                      get_best_order_in_system(standalone.all_orders,
                                               JITA_SYSTEM_ID, buy))
       IN  standalone' =
              IF standalone.call < Len(BuyArgs(standalone.script))
              THEN StartFetch(standalone.script, standalone.call + 1,
                              best_orders)
              ELSE [standalone EXCEPT
                       !.best_orders = best_orders,
                       !.pc = "exit",
                       !.exit_code = 0,
                       !.output = Output(best_orders)]
    /\ UNCHANGED runVars

\* A script is started: the first fetch is about to request page 1.
InitStandalone ==
    /\ \E script \in Scripts : standalone = StartFetch(script, 1, << >>)
    /\ pc = "resolve"
    /\ book = RunBook
    /\ lookup = NoLookup
    /\ config = BuildCostMultipliers
    /\ type_ids = EmptyMap
    /\ warned = {}
    /\ idx = 1
    /\ buy_cache = EmptyMap
    /\ sell_cache = EmptyMap
    /\ results = << >>
    /\ c = NoFrame
    /\ g = NewCall(0, FALSE)
    /\ ret = None
    /\ outcome = [n \in {} |-> ""]
    /\ net = NoNet
    /\ ncalls = [k \in Keys |-> 0]
    /\ nfetch = [k \in Keys |-> 0]
    /\ nnone = [k \in Keys |-> 0]
    /\ unsorted = << >>

NextStandalone ==
    \/ FetchPage
    \/ FetchPageError
    \/ Select

SpecStandalone == InitStandalone /\ [][NextStandalone]_vars

\* ------------------------------------------------------------ properties

ReturnSites == { "buy_ret", "mat_ret" }

\* The key of the call that is running or has just returned.
CallKey == << g.is_buy, g.type_id >>

\* C1 as stated: for every (item identifier, side), two calls make exactly
\* one fetch in total.  (Refuted: a first call that finds no order stores
\* nothing, and the second call fetches again.)
C1_TwoCallsOneFetch ==
    \A k \in Keys : ncalls[k] >= 2 => nfetch[k] = 1

\* C1 amended: for every (item identifier, side) whose first call returned
\* an order, two (or more) successive calls make exactly one fetch in total,
\* and the later call returns having issued no market request.
C1_FoundThenOneFetch ==
    /\ \A k \in Keys : (ncalls[k] >= 2 /\ nnone[k] = 0) => nfetch[k] = 1
    /\ (pc \in ReturnSites /\ ncalls[CallKey] >= 2 /\ nnone[CallKey] = 0)
          => net.nreq = 0

\* C1 witness: a second call for a key has just returned from the cache.
C1_SecondCallHit ==
    /\ pc = "mat_ret"
    /\ ncalls[CallKey] = 2
    /\ nfetch[CallKey] = 1
    /\ nnone[CallKey] = 0
    /\ net.nreq = 0

\* What a step leaves of one side's cache: every entry stays and keeps its
\* order, no fetch starts for a cached key, and a call for a cached key
\* returns the cached order at once, with no market request.
SideStable(is_buy, cache, cache_after) ==
    \A t \in DOMAIN cache :
        /\ t \in DOMAIN cache_after
        /\ cache_after[t] = cache[t]
        /\ nfetch'[<< is_buy, t >>] = nfetch[<< is_buy, t >>]
        /\ ncalls'[<< is_buy, t >>] # ncalls[<< is_buy, t >>]
              => /\ ret' = Some(cache[t])
                 /\ pc' = ReturnSite(is_buy)
                 /\ net'.nreq = 0

\* C2: once a cache holds an order for an identifier, every later lookup of
\* that key returns that order without a market request, and the entry is
\* never overwritten, removed or changed.
C2_CacheEntriesPermanent ==
    [][ /\ SideStable(TRUE, buy_cache, buy_cache')
        /\ SideStable(FALSE, sell_cache, sell_cache') ]_vars

\* C2 witness: a lookup has just been answered from a cache that holds
\* several entries, with the entry it holds.
C2_LookupAnsweredFromCache ==
    /\ pc = "mat_ret"
    /\ net.nreq = 0
    /\ g.type_id \in DOMAIN sell_cache
    /\ ret = Some(sell_cache[g.type_id])
    /\ Cardinality(DOMAIN sell_cache) >= 2
    /\ Cardinality(DOMAIN buy_cache) >= 2

\* C3: a call that finds no order at the target station leaves both caches
\* as they were, and the next lookup of the same key goes to the market
\* again, its first request being for page 1.
C3_AbsentNotCached ==
    [][ /\ (pc = "fetch" /\ pc' \in ReturnSites /\ IsNone(ret'))
            => /\ buy_cache' = buy_cache
               /\ sell_cache' = sell_cache
               /\ g.type_id \notin DOMAIN (IF g.is_buy THEN buy_cache'
                                            ELSE sell_cache')
        /\ \A k \in Keys :
              ( /\ ncalls'[k] = ncalls[k] + 1
                /\ nnone[k] > 0
                /\ k[2] \notin DOMAIN CacheOf(k[1]) )
              => /\ pc' = "fetch"
                 /\ g'.page = 1
                 /\ net'.nreq = 0
        /\ (pc = "fetch" /\ net.nreq = 0)
              => /\ net'.nreq = 1
                 /\ net'.page = 1 ]_vars

\* C3 witness: a key whose earlier lookup found nothing is being fetched
\* again, and the request for page 1 has gone out.
C3_RefetchAfterAbsent ==
    /\ pc = "fetch"
    /\ nnone[CallKey] >= 1
    /\ ncalls[CallKey] = 2
    /\ nfetch[CallKey] = 2
    /\ net.nreq = 1
    /\ net.page = 1

ResultNames(rs) == { rs[i].name : i \in 1..Len(rs) }

RecipeOf(name) ==
    COMPONENT_RECIPES[CHOOSE i \in 1..NRecipes : COMPONENT_RECIPES[i].name = name]

\* The recipes main's loop is through with.
Processed == { COMPONENT_RECIPES[i] : i \in 1..(idx - 1) }

AllResolved(recipe) ==
    /\ recipe.name \in DOMAIN type_ids
    /\ MaterialNames(recipe) \subseteq DOMAIN type_ids

\* The sum, over the first n materials of a recipe, of the required
\* quantity times the price of the sell order the sell cache holds.
RECURSIVE RawCostFromCache(_, _)
RawCostFromCache(materials, n) ==
    IF n = 0 THEN 0
    ELSE RawCostFromCache(materials, n - 1)
         + materials[n][2] * sell_cache[type_ids[materials[n][1]]].price

PriceIn(cache, name) == cache[type_ids[name]].price

\* The scenario of the specification: multipliers 0.9 and 1.1, A sold at 10
\* and B at 20.
WidgetScenario ==
    /\ config = [material |-> 90, overhead |-> 110]
    /\ { "A", "B" } \subseteq DOMAIN type_ids
    /\ { type_ids["A"], type_ids["B"] } \subseteq DOMAIN sell_cache
    /\ PriceIn(sell_cache, "A") = 10
    /\ PriceIn(sell_cache, "B") = 20

MaterialLacking(recipe) ==
    \E m \in MaterialNames(recipe) :
        \/ m \notin DOMAIN type_ids
        \/ type_ids[m] \notin DOMAIN sell_cache

\* C5: an item with a material whose identifier is unresolved or that has
\* no sell order at the target station fails, and the results (the ranked
\* list at the end) hold no entry for it, partial or placeholder.
C5_LackingItemsAbsent ==
    \A i \in 1..NRecipes :
        LET recipe == COMPONENT_RECIPES[i]
            failed == /\ recipe.name \in DOMAIN outcome
                      /\ outcome[recipe.name] \in { "missing_material", "no_sell" }
        IN  (MaterialLacking(recipe) \/ failed)
               => /\ recipe.name \notin ResultNames(results)
                  /\ recipe.name \in DOMAIN outcome
                        => outcome[recipe.name] # "ok"

\* C5 witness: the ranked list is out, Widget failed for want of a sell
\* order, and the list holds other items only.
C5_FailedItemLeftOut ==
    /\ pc = "report"
    /\ outcome["Widget"] = "no_sell"
    /\ Len(results) = 2
    /\ "Widget" \notin ResultNames(results)

\* C6: for each result, profit = sell price - effective cost and, when the
\* cost is positive, percentage = 100 x profit / cost; for Widget sold at
\* 100 with a cost of 39.6 the profit is 60.4 and the percentage between
\* 152.5 and 152.6.
C6_ProfitAndPercentage ==
    \A i \in 1..Len(results) :
        LET r == results[i]
        IN  /\ r.sell_price = PriceIn(buy_cache, r.name)
            /\ r.profit_isk = r.sell_price * CostDen - r.cost
            /\ r.cost > 0
                  => FracEq(r.profit_pct, << 100 * r.profit_isk, r.cost >>)
            /\ (r.name = "Widget" /\ r.sell_price = 100 /\ r.cost = 396000)
                  => /\ r.profit_isk = 604000
                     /\ FracGeq(r.profit_pct, << 1525, 10 >>)
                     /\ FracLess(r.profit_pct, << 1526, 10 >>)

\* C6 witness: Widget, sold at 100 and costing 39.6, is among the results.
C6_WidgetProfit ==
    \E i \in 1..Len(results) :
        /\ results[i].name = "Widget"
        /\ results[i].sell_price = 100
        /\ results[i].cost = 396000
        /\ results[i].profit_isk = 604000

\* C7: a result whose effective cost is 0 has percentage exactly 0 and
\* profit equal to its sell price, and an item that costs nothing is
\* reported like any other: the run does not stop on it.
C7_ZeroCostZeroPercent ==
    /\ \A i \in 1..Len(results) :
          results[i].cost = 0
             => /\ results[i].profit_pct = << 0, 1 >>
                /\ results[i].profit_isk = results[i].sell_price * CostDen
    /\ \A recipe \in Processed :
          ( /\ recipe.materials = << >>
            /\ recipe.name \in DOMAIN type_ids
            /\ type_ids[recipe.name] \in DOMAIN buy_cache )
          => \E i \in 1..Len(results) :
                results[i].name = recipe.name /\ results[i].cost = 0
    /\ pc = "aborted" => net.nreq > 0 \/ type_ids = EmptyMap

\* C7 witness: the ranked list holds an item of cost 0 and positive profit.
C7_ZeroCostReported ==
    /\ pc = "report"
    /\ \E i \in 1..Len(results) :
          /\ results[i].cost = 0
          /\ results[i].profit_pct = << 0, 1 >>
          /\ results[i].profit_isk > 0

Count(seq, x) == Cardinality({ i \in 1..Len(seq) : seq[i] = x })

IsPermutation(a, b) ==
    /\ Len(a) = Len(b)
    /\ \A i \in 1..Len(a) : Count(a, a[i]) = Count(b, a[i])

RecipeIndex(name) ==
    CHOOSE i \in 1..NRecipes : COMPONENT_RECIPES[i].name = name

\* C8: the ranked output is a permutation of the results computed, every
\* field unchanged, and an earlier entry's percentage is never below a
\* later one's.
C8_RankedIsSortedPermutation ==
    pc = "report"
       => /\ IsPermutation(results, unsorted)
          /\ \A i, j \in 1..Len(results) :
                i < j => FracGeq(results[i].profit_pct, results[j].profit_pct)

\* C8 witness: three results were ranked, strictly descending, and the
\* sort moved them.
C8_ThreeRanked ==
    /\ pc = "report"
    /\ Len(results) = 3
    /\ results # unsorted
    /\ FracLess(results[2].profit_pct, results[1].profit_pct)
    /\ FracLess(results[3].profit_pct, results[2].profit_pct)

\* C9: results of equal percentage keep the relative order their items
\* have in the recipe table, which is the order they were computed in.
C9_SortIsStable ==
    /\ pc # "report"
          => \A i, j \in 1..Len(results) :
                i < j => RecipeIndex(results[i].name) < RecipeIndex(results[j].name)
    /\ pc = "report"
          => \A i, j \in 1..Len(results) :
                (i < j /\ FracEq(results[i].profit_pct, results[j].profit_pct))
                   => RecipeIndex(results[i].name) < RecipeIndex(results[j].name)

\* C9 witness: the ranked list holds two items of equal percentage, below
\* a third one the sort moved ahead of them.
C9_TieRanked ==
    /\ pc = "report"
    /\ Len(results) = 3
    /\ results # unsorted
    /\ FracEq(results[2].profit_pct, results[3].profit_pct)

\* C10: the order a fetch returns (and the best order it holds while it
\* runs) is at the target station and its price is the highest (buy side)
\* or lowest (sell side) of the target-station orders received on all its
\* pages; it is None exactly when none was received there; orders elsewhere
\* are never returned or cached.
C10_BestIsExtremalAtStation ==
    /\ (pc = "fetch" \/ (pc \in ReturnSites /\ net.nreq > 0))
          => LET best == IF pc = "fetch" THEN g.best_order ELSE ret
             IN  /\ IsNone(best) <=> IsNone(net.jita)
                 /\ ~IsNone(best)
                       => /\ Get(best) \in book
                          /\ Get(best).location_id = JITA_44_STATION_ID
                          /\ Get(best).price = Get(net.jita)
    /\ \A t \in DOMAIN buy_cache :
          buy_cache[t].location_id = JITA_44_STATION_ID
    /\ \A t \in DOMAIN sell_cache :
          sell_cache[t].location_id = JITA_44_STATION_ID

\* C10 witness: a buy-side fetch of two pages returns the target station's
\* order at 10 although a better priced order elsewhere was received.
C10_OutbidElsewhereIgnored ==
    /\ pc = "buy_ret"
    /\ net.nreq = 2
    /\ net.elsewhere
    /\ ret = Some(Order(JITA_44_STATION_ID, 10, 1))

\* The first order, in arrival order, that has the extremal price of `seen`.
FirstBest(seen, is_buy) ==
    IF seen = << >> THEN None
    ELSE LET best_price ==
                 Get(Extremal(is_buy, { seen[i].price : i \in 1..Len(seen) }))
             first == SetMin({ i \in 1..Len(seen) : seen[i].price = best_price })
         IN  Some(seen[first])

\* C11: among the target-station orders received so far, page after page
\* and in response order within a page, the selector holds (and returns)
\* the first one that has the extremal price; a later order with an equal
\* price does not replace it.
C11_FirstSeenWinsTies ==
    /\ g.best_order = FirstBest(net.seen, g.is_buy)
    /\ pc \in ReturnSites => ret = FirstBest(net.seen, g.is_buy)

\* C11 witness: a call has returned after two pages, each of which brought
\* a different order at the price of the order returned, the first of them
\* being the one returned.
C11_TieAcrossPages ==
    /\ pc \in ReturnSites
    /\ net.pages = 2
    /\ Len(net.seen) = 2
    /\ net.seen[1] # net.seen[2]
    /\ net.seen[1].price = net.seen[2].price
    /\ ret = Some(net.seen[1])

\* Whether the page of orders just received ends the pagination: it is
\* empty, it has no X-Pages header, or its number has reached the total.
LastPage(page, resp, x_pages) ==
    \/ resp = "empty"
    \/ resp = "orders" /\ (x_pages = 0 \/ page >= x_pages)

\* C12: every request of a call is for the page after the pages processed
\* so far, the first one for page 1; the page number goes up by exactly
\* one after a page of orders that is not the last and stays otherwise;
\* and the call returns, with no further request, as soon as a page is
\* empty, has no X-Pages header, or has a number that reaches the total.
C12_PagesInSequenceAndStops ==
    [][ pc = "fetch" =>
          /\ net'.nreq = net.nreq + 1
          /\ net'.page = g.page
          /\ net'.page = net.pages + 1
          /\ net.nreq = 0 => net'.page = 1
          /\ IF net'.resp = "orders"
                 /\ ~LastPage(g.page, net'.resp, net'.x_pages)
             THEN g'.page = g.page + 1
             ELSE g'.page = g.page
          /\ LastPage(g.page, net'.resp, net'.x_pages) => pc' \in ReturnSites
      ]_vars

\* C12 witness: a call has returned after pages 1 and 2, the second one
\* declaring a total of 2 pages.
C12_StoppedAtDeclaredTotal ==
    /\ pc \in ReturnSites
    /\ net.page = 2
    /\ net.pages = 2
    /\ net.resp = "orders"
    /\ net.x_pages = 2
    /\ g.page = 2

\* C13: a rate-limit or server-error response does not end the call or
\* the run; the page counter, the best order so far and the caches stay as
\* they were, and the request that follows is for the same page.
C13_RetrySamePage ==
    [][ /\ (pc = "fetch" /\ net'.resp = "retry")
            => /\ pc' = "fetch"
               /\ g' = g
               /\ buy_cache' = buy_cache
               /\ sell_cache' = sell_cache
               /\ net'.pages = net.pages
               /\ net'.seen = net.seen
        /\ (pc = "fetch" /\ net.resp = "retry")
            => /\ net'.nreq = net.nreq + 1
               /\ net'.page = net.page
      ]_vars

\* C13 witness: a call has returned after three requests, for pages 1, 2
\* and 2 again, the first request for page 2 having been answered with a
\* retryable status while a best order from page 1 was held.
C13_SecondPageRetried ==
    /\ pc \in ReturnSites
    /\ net.nreq = 3
    /\ net.nretry = 1
    /\ net.page = 2
    /\ net.pages = 2
    /\ Len(net.seen) = 2
    /\ ret = Some(net.seen[1])

\* C14: no request of a call is for a page beyond max_pages and at most
\* max_pages pages are processed; a page numbered max_pages that declares a
\* larger total ends the call, which returns the best order accumulated
\* (absent when there is none) rather than failing.
C14_MaxPagesCapsTheFetch ==
    /\ net.page <= g.max_pages
    /\ net.pages <= g.max_pages
    /\ pc = "fetch" => g.page <= g.max_pages
    /\ (net.resp = "orders" /\ net.page = g.max_pages
                            /\ net.x_pages > g.max_pages)
          => /\ pc \in ReturnSites
             /\ ret = FirstBest(net.seen, g.is_buy)

\* C14 witness: a call with max_pages = 1 has returned an order after page
\* 1, which declared 2 pages.
C14_TruncatedAtMaxPages ==
    /\ pc \in ReturnSites
    /\ g.max_pages = 1
    /\ net.page = 1
    /\ net.pages = 1
    /\ net.x_pages = 2
    /\ ~IsNone(ret)

\* C15: when the request for page 1 is answered with an empty list, the
\* call returns at once with an absent result (after a single request when
\* none was retried), nothing is raised and nothing cached; the item that
\* asked is then skipped, the results stay as they were and the loop of
\* main goes on to the next recipe.
C15_EmptyFirstPage ==
    [][ /\ (pc = "fetch" /\ g.page = 1 /\ net'.resp = "empty")
            => /\ pc' \in ReturnSites
               /\ IsNone(ret')
               /\ net'.nreq = net.nretry + 1
               /\ buy_cache' = buy_cache
               /\ sell_cache' = sell_cache
        /\ (pc \in ReturnSites /\ net.resp = "empty" /\ net.page = 1)
            => /\ pc' = "loop"
               /\ idx' = idx + 1
               /\ results' = results
               /\ Recipe.name \in DOMAIN outcome'
               /\ outcome'[Recipe.name] \in { "no_buy", "no_sell" }
      ]_vars

\* C15 witness: the second recipe's call for its buy order has returned
\* absent after one request, for page 1, answered with an empty list, the
\* first recipe's result being held.
C15_EmptyPageOneReturned ==
    /\ pc = "buy_ret"
    /\ idx = 2
    /\ Len(results) = 1
    /\ net.resp = "empty"
    /\ net.page = 1
    /\ net.nreq = 1
    /\ IsNone(ret)

\* The item being processed is about to fail: its own identifier or the
\* identifier of its next material is unresolved, or the call for its buy
\* order or for a material's sell order has returned absent.
ItemFailing ==
    \/ pc = "loop" /\ idx <= NRecipes /\ Recipe.name \notin DOMAIN type_ids
    \/ /\ pc = "mat"
       /\ c.mat <= Len(Recipe.materials)
       /\ Recipe.materials[c.mat][1] \notin DOMAIN type_ids
    \/ pc \in ReturnSites /\ IsNone(ret)

\* This step, a market request made for the item is answered with an
\* error status that is not retried.
RequestFails == pc = "fetch" /\ net'.resp = "error"

\* This step, the item is dropped, the results collected are kept and the
\* loop of main is at the next recipe.
OnlyItemDiscarded ==
    /\ pc' = "loop"
    /\ idx' = idx + 1
    /\ results' = results
    /\ Recipe.name \in DOMAIN outcome'
    /\ outcome'[Recipe.name] # "ok"

\* C16 as stated: an unresolved identifier, no liquidity and a failed
\* market request alike discard only the item being processed.  (Refuted:
\* a failed market request ends the run.)
C16_AnyFailureDiscardsOnlyItem ==
    [][ (ItemFailing \/ RequestFails) => OnlyItemDiscarded ]_vars

\* C16 amended: an unresolved identifier (the item's or a material's) and
\* no liquidity (for the item or a material) discard only the item being
\* processed, the results collected are kept and the run goes on with the
\* next recipe; a market request answered with a non-retried error status
\* ends the run instead.
C16_ItemFailureDiscardsOnlyItem ==
    [][ /\ ItemFailing => OnlyItemDiscarded
        /\ RequestFails => pc' = "aborted" ]_vars

\* C16 witness: the report holds the results of the first and the third
\* recipe, the second one having failed in between.
C16_FailureBetweenResults ==
    /\ pc = "report"
    /\ DOMAIN outcome = { "Widget", "A", "Blank" }
    /\ outcome["Widget"] = "ok"
    /\ outcome["A"] # "ok"
    /\ outcome["Blank"] = "ok"
    /\ ResultNames(results) = { "Widget", "Blank" }

\* C17: a market response with an error status outside the retried ones
\* ends the run at that step: the call does not go on and does not return,
\* no item is skipped, and from the aborted run no step follows, so the
\* results computed so far are never sorted or reported.
C17_MarketErrorAbortsRun ==
    [][ /\ RequestFails
            => /\ pc' = "aborted"
               /\ g' = g
               /\ idx' = idx
               /\ outcome' = outcome
               /\ results' = results
               /\ unsorted' = << >>
        /\ pc # "aborted" ]_vars

\* C17 witness: the run was aborted by a market error after the results
\* of two items had been computed; they were not ranked.
C17_AbortedWithResults ==
    /\ pc = "aborted"
    /\ net.resp = "error"
    /\ Len(results) = 2
    /\ unsorted = << >>

\* C18: after a lookup answered with status 200 the mapping holds exactly
\* the names the service recognized, each with the identifier the service
\* gave it; the run goes on; and the names warned about are exactly the
\* requested names that are not in the mapping, none of them resolved.
C18_MappingAndWarning ==
    lookup.status = 200
        => /\ pc # "resolve"
           /\ lookup.nreq = 1
           /\ DOMAIN type_ids = lookup.recognized
           /\ \A n \in DOMAIN type_ids : type_ids[n] = ServiceIdOf[n]
           /\ warned = AllNames \ DOMAIN type_ids
           /\ warned \cap DOMAIN type_ids = {}

\* C18 witness: the lookup has just returned a partial mapping: some
\* names are mapped, the others were warned about.
C18_PartialMapping ==
    /\ pc = "loop"
    /\ idx = 1
    /\ lookup.status = 200
    /\ DOMAIN type_ids = { "Widget", "B" }
    /\ warned = { "A", "Blank" }

\* C19: the lookup service is asked at most once in a run; when it
\* answers with an error status, a retried-by-the-fetcher one included,
\* the run is aborted after that one request, with no name resolved, no
\* selector call made, no market request issued and no result.
C19_LookupErrorAbortsRun ==
    /\ lookup.nreq <= 1
    /\ lookup.status \in ErrorStatuses
          => /\ pc = "aborted"
             /\ lookup.nreq = 1
             /\ type_ids = EmptyMap
             /\ \A k \in Keys : ncalls[k] = 0 /\ nfetch[k] = 0
             /\ net.nreq = 0
             /\ results = << >>

\* C19 witness: the run was aborted by a rate-limit status of the lookup
\* service, after one lookup request.
C19_LookupRateLimited ==
    /\ pc = "aborted"
    /\ lookup.status = 429
    /\ lookup.nreq = 1
    /\ net.nreq = 0

\* This step, a selector call is made on the given side for identifier t.
Calls(is_buy, t) == ncalls'[<< is_buy, t >>] # ncalls[<< is_buy, t >>]

\* C20: an item whose own identifier is unresolved fails with no selector
\* call and no market request made for it; an item whose buy order is
\* absent fails with no material looked up or fetched; a buy-side call is
\* made only for the resolved item at the head of the loop, and a
\* sell-side call only for the next material of an item that has its buy
\* order, every earlier material of the recipe being resolved and priced;
\* the material index moves on one at a time.
C20_ChecksInFixedOrder ==
    [][ /\ (pc = "loop" /\ idx <= NRecipes
                        /\ Recipe.name \notin DOMAIN type_ids)
            => /\ Recipe.name \in DOMAIN outcome'
               /\ outcome'[Recipe.name] = "no_type_id"
               /\ ncalls' = ncalls
               /\ nfetch' = nfetch
               /\ net' = net
        /\ (pc = "buy_ret" /\ IsNone(ret))
            => /\ Recipe.name \in DOMAIN outcome'
               /\ outcome'[Recipe.name] = "no_buy"
               /\ pc' = "loop"
               /\ ncalls' = ncalls
               /\ nfetch' = nfetch
        /\ pc = "buy_ret" => c = NoFrame
        /\ \A t \in TypeIds :
              /\ Calls(TRUE, t)
                    => /\ pc = "loop"
                       /\ Recipe.name \in DOMAIN type_ids
                       /\ t = type_ids[Recipe.name]
              /\ Calls(FALSE, t)
                    => /\ pc = "mat"
                       /\ ~IsNone(c.buy_order)
                       /\ c.mat <= Len(Recipe.materials)
                       /\ Recipe.materials[c.mat][1] \in DOMAIN type_ids
                       /\ t = type_ids[Recipe.materials[c.mat][1]]
                       /\ \A j \in 1..(c.mat - 1) :
                             /\ Recipe.materials[j][1] \in DOMAIN type_ids
                             /\ type_ids[Recipe.materials[j][1]]
                                   \in DOMAIN sell_cache
        /\ c'.mat \in { c.mat, c.mat + 1, 1 }
      ]_vars

\* C20 witness: the first recipe failed for want of a buy order and none
\* of its materials was ever asked for; the second recipe, which has its
\* buy order, has had its first material fetched.
C20_NoBuyThenNextItemFetches ==
    /\ pc = "mat_ret"
    /\ idx = 2
    /\ outcome = [n \in { "Widget" } |-> "no_buy"]
    /\ ncalls[<< FALSE, ServiceIdOf["A"] >>] = 0
    /\ ncalls[<< FALSE, ServiceIdOf["B"] >>] = 1
    /\ ~IsNone(c.buy_order)
    /\ c.mat = 1

\* The names of the finished items, in table order.
RecipeNames == { COMPONENT_RECIPES[i].name : i \in 1..NRecipes }

\* C21: a run whose loop is over has ended in one of two ways, told apart
\* from each other and from an aborted run: with the "no results" message
\* exactly when no item succeeded, nothing having been sorted or reported,
\* and with the ranked report otherwise.
C21_NoResultsReportedDistinctly ==
    /\ pc = "no_results"
          => /\ results = << >>
             /\ unsorted = << >>
             /\ idx = NRecipes + 1
             /\ lookup.status = 200
             /\ DOMAIN outcome = RecipeNames
             /\ \A n \in RecipeNames : outcome[n] # "ok"
    /\ pc = "report" => results # << >> /\ unsorted # << >>
    /\ pc = "aborted" => idx <= NRecipes /\ unsorted = << >>
    /\ (idx = NRecipes + 1 /\ pc # "loop")
          => pc = (IF results = << >> THEN "no_results" ELSE "report")

\* C21 witness: a run has ended with the "no results" message, every item
\* having failed for want of a buy order although all names were resolved.
C21_AllItemsFailed ==
    /\ pc = "no_results"
    /\ warned = {}
    /\ outcome = [n \in RecipeNames |-> "no_buy"]
    /\ results = << >>

\* The run is over: reported, or ended by an uncaught exception.
Reported == pc \in { "report", "no_results" }
Terminated == Reported \/ pc = "aborted"

\* Each call makes at most max_pages requests that are not retried, and
\* leaves its loop; the loop of main takes the recipes one by one in table
\* order, each once; a run that has reported has processed all of them.
CallsAndLoopBounded ==
    /\ [](net.nreq - net.nretry <= g.max_pages)
    /\ (pc = "fetch") ~> (pc # "fetch")
    /\ [][ idx' # idx
             => /\ idx' = idx + 1
                /\ Recipe.name \notin DOMAIN outcome
                /\ DOMAIN outcome' = DOMAIN outcome \cup { Recipe.name } ]_vars
    /\ [](Reported => idx = NRecipes + 1 /\ DOMAIN outcome = RecipeNames)

\* C22 as stated: when retryable statuses come to an end, every call ends
\* within max_pages non-retried requests and the run ends having processed
\* every recipe once, in table order.  (Refuted: a non-retryable response
\* that is an error status ends the run before the remaining recipes.)
C22_RunProcessesEveryRecipe ==
    /\ CallsAndLoopBounded
    /\ <>Reported

\* C22 amended: when retryable statuses come to an end, every call ends
\* within max_pages non-retried requests and the run ends: aborted by an
\* error status, or else having processed every recipe once, in table
\* order.
C22_RunTerminates ==
    /\ CallsAndLoopBounded
    /\ <>Terminated

\* C22 witness: a run whose first call was made with max_pages = 1 has
\* reported after the three recipes, the first of which failed at a
\* material.
C22_ReportedAfterAllRecipes ==
    /\ pc = "report"
    /\ g.max_pages = DEFAULT_MAX_PAGES
    /\ idx = NRecipes + 1
    /\ outcome = [n \in RecipeNames |-> IF n = "Widget" THEN "no_sell" ELSE "ok"]

\* C23: while the service answers the page requested with retryable
\* statuses only, every step of the call is one more request for that same
\* page; the call does not return, fail or move on, whatever max_pages is,
\* and its caller's item index, results and report stay as they were; the
\* next retry is always possible (up to the number of retries followed).
C23_StalledFetchNeverReturns ==
    /\ []((pc = "stalled" /\ net.nretry < MaxStalledRetries)
             => ENABLED RespRetryStalled)
    /\ [][ pc = "stalled"
                => /\ pc' = "stalled"
                   /\ net'.resp = "retry"
                   /\ net'.nreq = net.nreq + 1
                   /\ net'.nretry = net.nretry + 1
                   /\ net'.page = g.page
                   /\ g' = g
                   /\ ret' = ret
                   /\ idx' = idx
                   /\ results' = results
                   /\ unsorted' = unsorted
                   /\ buy_cache' = buy_cache
                   /\ sell_cache' = sell_cache
         ]_vars

\* C23 witness: a call made with max_pages = 2 is still asking for page 2
\* after more retries than max_pages and than a recovering service gives,
\* the best order of page 1 in hand and nothing returned.
C23_RetriesBeyondMaxPages ==
    /\ pc = "stalled"
    /\ g.max_pages = 2
    /\ g.page = 2
    /\ net.page = 2
    /\ net.nretry = MaxStalledRetries
    /\ net.nretry > g.max_pages
    /\ net.nretry > MaxRetries
    /\ ~IsNone(g.best_order)
    /\ IsNone(ret)

\* C24: the lookup service is asked once, before any selector call or
\* market request; after that step the mapping, the warning and the lookup
\* record never change, so a name missing from the mapping is missing at
\* every later step, and an item that needs it fails.
C24_MappingBuiltOnce ==
    [][ /\ pc = "resolve"
            => /\ lookup.nreq = 0
               /\ lookup'.nreq = 1
               /\ net.nreq = 0
               /\ \A k \in Keys : ncalls[k] = 0 /\ ncalls'[k] = 0
        /\ pc # "resolve"
            => /\ type_ids' = type_ids
               /\ warned' = warned
               /\ lookup' = lookup
               /\ lookup.nreq = 1
               /\ lookup.status = 200
        /\ (pc = "loop" /\ idx <= NRecipes /\ Recipe.name \in warned)
            => /\ Recipe.name \in DOMAIN outcome'
               /\ outcome'[Recipe.name] = "no_type_id"
        /\ (pc = "mat" /\ c.mat <= Len(Recipe.materials)
                       /\ Recipe.materials[c.mat][1] \in warned)
            => /\ Recipe.name \in DOMAIN outcome'
               /\ outcome'[Recipe.name] = "missing_material"
      ]_vars

\* C24 witness: the one name the lookup did not resolve has made both
\* recipes that use it fail, one after the other.
C24_MissingNameFailsTwice ==
    /\ pc = "loop"
    /\ idx = 3
    /\ lookup.nreq = 1
    /\ warned = { "B" }
    /\ outcome = [n \in { "Widget", "A" } |-> "missing_material"]

\* C25: every entry of a side's cache was stored by a fetch made on that
\* side for that identifier, and every key looked up on a side was fetched
\* on that side: an entry of the other side's cache under the same
\* identifier never answers; a call answered without a request returns the
\* entry of its own side.
C25_CachesNeverMix ==
    /\ \A t \in DOMAIN buy_cache : nfetch[<< TRUE, t >>] >= 1
    /\ \A t \in DOMAIN sell_cache : nfetch[<< FALSE, t >>] >= 1
    /\ \A k \in Keys : ncalls[k] >= 1 => nfetch[k] >= 1
    /\ (pc \in ReturnSites /\ net.nreq = 0)
          => /\ pc = ReturnSite(g.is_buy)
             /\ g.type_id \in DOMAIN (IF g.is_buy THEN buy_cache ELSE sell_cache)
             /\ ret = Some((IF g.is_buy THEN buy_cache ELSE sell_cache)[g.type_id])

\* C25 witness: item "A", whose sell order is cached because it is a
\* material of the first recipe, is being fetched on the buy side as the
\* second recipe's finished item.
C25_BuySideFetchedDespiteSellEntry ==
    /\ pc = "fetch"
    /\ g.is_buy
    /\ g.type_id = ServiceIdOf["A"]
    /\ ServiceIdOf["A"] \in DOMAIN sell_cache
    /\ ServiceIdOf["A"] \notin DOMAIN buy_cache
    /\ net.nreq = 1

\* C26: an item that fails at one of its materials (the material has no
\* identifier, or no sell order in Jita) is given up in that very step: the
\* loop of main moves to the next recipe, no request is made and no lookup
\* is started for the materials that follow, nothing is appended to the
\* results, and both caches keep every entry they held, the item's own buy
\* order and the sell orders of its earlier materials included.  Whatever
\* happened before, a call for a key its cache holds is answered with that
\* entry and without a request.
FailsAtMaterial ==
    \/ /\ pc = "mat"
       /\ c.mat <= Len(Recipe.materials)
       /\ Recipe.materials[c.mat][1] \notin DOMAIN type_ids
    \/ /\ pc = "mat_ret"
       /\ IsNone(ret)

C26_MaterialFailureStopsItemKeepsCaches ==
    [][/\ \A k \in Keys :
             (Calls(k[1], k[2])
                 /\ k[2] \in DOMAIN (IF k[1] THEN buy_cache ELSE sell_cache))
                => /\ net'.nreq = 0
                   /\ ret' = Some((IF k[1] THEN buy_cache' ELSE sell_cache')[k[2]])
       /\ FailsAtMaterial =>
          /\ pc' = "loop"
          /\ idx' = idx + 1
          /\ c' = NoFrame
          /\ results' = results
          /\ ncalls' = ncalls
          /\ nfetch' = nfetch
          /\ buy_cache' = buy_cache
          /\ sell_cache' = sell_cache
          /\ type_ids[Recipe.name] \in DOMAIN buy_cache'
          /\ \A j \in 1..(c.mat - 1) :
                type_ids[Recipe.materials[j][1]] \in DOMAIN sell_cache'
          /\ Recipe.name \in DOMAIN outcome'
          /\ outcome'[Recipe.name] \in {"missing_material", "no_sell"}
      ]_vars

\* Widget failed at its second material; the sell order of its first
\* material and its own buy order are still cached when the run reports,
\* and item A, processed later, has its result.
C26_EarlierEntriesKeptToTheEnd ==
    /\ pc = "report"
    /\ "Widget" \in DOMAIN outcome /\ outcome["Widget"] = "no_sell"
    /\ "A" \in DOMAIN outcome /\ outcome["A"] = "ok"
    /\ ServiceIdOf["Widget"] \in DOMAIN buy_cache
    /\ ServiceIdOf["A"] \in DOMAIN sell_cache
    /\ ncalls[<< FALSE, ServiceIdOf["A"] >>] = 1
    /\ ncalls[<< FALSE, ServiceIdOf["B"] >>] = 2

\* The fetch last made ended on a page of orders whose X-Pages header
\* declared more pages than were requested.
Truncated == net.resp = "orders" /\ net.x_pages > net.page

\* C27: a fetch that max_pages ends while the declared total is larger
\* stores the best order of the pages it read, as a fetch that read every
\* page does; the next lookup of that key, whatever its max_pages, returns
\* the stored order with no request and no new fetch, and leaves the caches
\* as they are.
C27_TruncatedBestServedFromCache ==
    [][/\ (pc = "fetch" /\ pc' \in ReturnSites /\ Truncated')
          => /\ net'.page = g.max_pages
             /\ ret' = g'.best_order
             /\ ~IsNone(ret')
                   => /\ g.type_id \in DOMAIN CacheOf(g.is_buy)'
                      /\ CacheOf(g.is_buy)'[g.type_id] = Get(ret')
       /\ (pc \in ReturnSites /\ Calls(g.is_buy, g.type_id)
              /\ Truncated /\ ~IsNone(ret))
          => /\ pc' = pc
             /\ ret' = ret
             /\ net'.nreq = 0
             /\ nfetch' = nfetch
             /\ buy_cache' = buy_cache
             /\ sell_cache' = sell_cache
      ]_vars

\* C27 witness: the first buy-side call had max_pages = 1 and read one page
\* of two, holding the station's order at 10; the second call has returned
\* that order without a request although the book holds a station order at
\* 20 that was never received.
C27_BetterOrderNeverFetched ==
    /\ pc = "buy_ret"
    /\ ncalls[CallKey] = 2
    /\ nfetch[CallKey] = 1
    /\ net.nreq = 0
    /\ Truncated
    /\ net.pages = 1
    /\ ret = Some(Order(JITA_44_STATION_ID, 10, 1))
    /\ \E o \in book :
          /\ AtStation(o)
          /\ o.price = 20
          /\ \A i \in 1..Len(net.seen) : net.seen[i] # o

\* C28: a 204 response, on whatever page, ends the call in that step as an
\* empty page does: the request is counted and not retried, nothing is
\* raised, the call variables stay as they were, the best order of the pages
\* read before (the first-seen extremal one, None when there was none) is
\* returned, and it is stored under the key when present, the caches being
\* untouched otherwise.
C28_NoContentEndsLikeEmptyPage ==
    [][(pc = "fetch" /\ net'.resp \in { "204", "empty" })
          => /\ pc' = ReturnSite(g.is_buy)
             /\ g' = g
             /\ net'.nreq = net.nreq + 1
             /\ net'.nretry = net.nretry
             /\ net'.page = g.page
             /\ net'.pages = net.pages
             /\ net'.seen = net.seen
             /\ ret' = g.best_order
             /\ ret' = FirstBest(net.seen, g.is_buy)
             /\ CacheOf(~g.is_buy)' = CacheOf(~g.is_buy)
             /\ IF IsNone(ret')
                THEN CacheOf(g.is_buy)' = CacheOf(g.is_buy)
                ELSE CacheOf(g.is_buy)' =
                        [t \in DOMAIN CacheOf(g.is_buy) \cup { g.type_id } |->
                            IF t = g.type_id THEN Get(ret')
                            ELSE CacheOf(g.is_buy)[t]]
      ]_vars

\* C28 witness: page 1 held an order at the station and declared two
\* pages, the request for page 2 was answered 204, and the call has
\* returned and cached the order of page 1.
C28_NoContentOnSecondPage ==
    /\ pc \in ReturnSites
    /\ net.resp = "204"
    /\ net.page = 2
    /\ net.pages = 1
    /\ net.nretry = 0
    /\ ~IsNone(ret)
    /\ g.type_id \in DOMAIN CacheOf(g.is_buy)
    /\ CacheOf(g.is_buy)[g.type_id] = Get(ret)

\* C29: for a recipe with no materials, every call and request made while
\* it is processed is a buy-side one for the item itself and the material
\* cost stays 0; the item is never given up for a material, and once it is
\* processed with its identifier resolved and its buy order found, the
\* results hold its record: cost 0, profit equal to the price of the buy
\* order, percentage 0.
C29_EmptyRecipeReported ==
    \A i \in 1..NRecipes :
       LET r == COMPONENT_RECIPES[i]
       IN  r.materials = << >> =>
             /\ (idx = i /\ pc \in { "fetch", "buy_ret", "mat_ret" })
                   => /\ pc # "mat_ret"
                      /\ g.is_buy
                      /\ g.type_id = type_ids[r.name]
             /\ (idx = i /\ pc = "mat")
                   => /\ c.total_raw_material_cost = 0
                      /\ c.mat = 1
                      /\ ~IsNone(c.buy_order)
             /\ r.name \in DOMAIN outcome
                   => outcome[r.name] \in { "no_type_id", "no_buy", "ok" }
             /\ ( /\ r.name \in DOMAIN outcome
                  /\ r.name \in DOMAIN type_ids
                  /\ type_ids[r.name] \in DOMAIN buy_cache )
                   => LET o == buy_cache[type_ids[r.name]]
                      IN  /\ outcome[r.name] = "ok"
                          /\ \E k \in 1..Len(results) :
                                results[k] =
                                   [ name |-> r.name,
                                     profit_isk |-> o.price * CostDen,
                                     profit_pct |-> << 0, 1 >>,
                                     buy_volume |-> o.volume_remain,
                                     sell_price |-> o.price,
                                     cost |-> 0 ]

\* C29 witness: the recipe without materials has just been appended as the
\* last result, after the one fetch of its buy-side call; no sell-side
\* call was ever made for its identifier.
C29_BlankAppendedAfterOneBuyRequest ==
    /\ pc = "loop"
    /\ idx = NRecipes + 1
    /\ "Blank" \in DOMAIN outcome /\ outcome["Blank"] = "ok"
    /\ Len(results) >= 2
    /\ results[Len(results)].name = "Blank"
    /\ results[Len(results)].cost = 0
    /\ results[Len(results)].profit_isk = results[Len(results)].sell_price * CostDen
    /\ nfetch[<< TRUE, ServiceIdOf["Blank"] >>] = 1
    /\ ncalls[<< FALSE, ServiceIdOf["Blank"] >>] = 0

\* C30: in every fetch of the stand-alone scripts the pages requested are
\* 1, 2, ... in order, none twice; all_orders is the concatenation of the
\* pages received, in order; the loop goes on after a page exactly when that
\* page carried an X-Pages header larger than its number, an empty page
\* included, and returns otherwise; an error status, retryable or not, is
\* the last request made and ends the script with exit code 1; when every
\* fetch has returned the script ends with exit code 0, with the message of
\* a missing order exactly when one of the best orders is absent.
C30_StandaloneFetcher ==
    /\ \A i \in 1..Len(standalone.requested) : standalone.requested[i] = i
    /\ standalone.all_orders = Flatten(standalone.received)
    /\ Len(standalone.requested) =
          Len(standalone.received)
             + (IF standalone.status \in ErrorStatuses THEN 1 ELSE 0)
    /\ standalone.pc = "fetch"
          => /\ standalone.page = Len(standalone.requested) + 1
             /\ standalone.requested # << >>
                   => /\ standalone.status = 200
                      /\ standalone.x_pages # 0
                      /\ Len(standalone.requested) < standalone.x_pages
    /\ standalone.pc = "select"
          => /\ standalone.status = 200
             /\ standalone.page = Len(standalone.requested)
             /\ standalone.x_pages = 0 \/ standalone.page >= standalone.x_pages
    /\ standalone.status \in ErrorStatuses
          <=> (standalone.pc = "exit" /\ standalone.exit_code = 1)
    /\ standalone.exit_code # -1 <=> standalone.pc = "exit"
    /\ standalone.exit_code = 1 => standalone.output = "error"
    /\ standalone.exit_code = 0
          => /\ Len(standalone.best_orders) = Len(BuyArgs(standalone.script))
             /\ standalone.output \in { "no_buy", "no_sell" }
                   <=> \E i \in 1..Len(standalone.best_orders) :
                          IsNone(standalone.best_orders[i])
             /\ standalone.output \in { "no_buy", "no_sell", "report" }

\* C30 witness: in build_cost_test the second fetch got an empty page 1
\* that declared two pages, asked for page 2 and was answered 429; the
\* script has ended with exit code 1 after those two requests.
C30_RateLimitedAfterEmptyPage ==
    /\ standalone.script = "build_cost_test"
    /\ standalone.pc = "exit"
    /\ standalone.exit_code = 1
    /\ standalone.status = 429
    /\ standalone.call = 2
    /\ standalone.requested = << 1, 2 >>
    /\ standalone.received = << << >> >>

=============================================================================
